---- MODULE Spec2Model ----
(***************************************************************************)
(* msgforwarder: the pluggable message forwarder (src/msgforwarder) and,   *)
(* in its own section, the single-file forwarder (src/forwarder.py).       *)
(*                                                                         *)
(* Python strings are modelled as sequences of tokens, so that splitting,  *)
(* concatenation, %-formatting and regular-expression matching are         *)
(* computed rather than assumed.  A Python dict is a TLA+ function whose   *)
(* DOMAIN is the set of its keys ("k in d" is k \in DOMAIN d).             *)
(***************************************************************************)
EXTENDS Integers, Sequences, FiniteSets, TLC

VARIABLES
    args,          \* sys.argv[1:]
    printed,       \* what run() has printed on standard output
    clients,       \* config["clients"] as loaded: client id -> client config dict
    self_clients,  \* the same dicts as the program holds them now (Forwarder._clients)
    rules,         \* config["rules"]: the configured list of rule dicts
    pc,            \* position of run(): args, validate, construct, start, running; or how
                   \* it ended: exit0, exit1, raised
    self_rules,    \* Forwarder._rules (the validated rules)
    transports,    \* Forwarder._clients[id]["client"]: id -> transport object
    subscribed,    \* blinker.signal("messages") has Forwarder.on_message connected
    connected,     \* client ids on which connect() has been invoked
    session,       \* id -> state of the transport's network session / receive loop
    loops,         \* live receive loops: <<id, room>> (Gitter), <<id, <<>>>> (telegram)
    updates,       \* id -> the rest of the getUpdates result a telegram loop iterates
    tasks,         \* coroutines _say(target, msg) scheduled on the event loop, not finished
    last,          \* the last call of Forwarder.on_message and what it did
    published,     \* the last event a transport passed to _forward_message: the session
                   \* it was received on and the client that published it
    self_rooms,    \* id -> the room names of GitterClient._rooms
    joined,        \* <<id, room>>: the rooms GitterClient._join_room was called for
    offset,        \* id -> the local "offset" of _listen_for_update (0 is None)
    forwarded      \* id -> the update_ids of the updates the telegram loop published

vars == <<args, printed, clients, self_clients, rules, pc, self_rules, transports, subscribed, connected,
          session, loops, updates, tasks, last, published, self_rooms, joined, offset, forwarded>>

(***************************************************************************)
(* Bounds of the model.                                                    *)
(***************************************************************************)
MaxTasks == 2
MaxRules == 2

(***************************************************************************)
(* Values.                                                                 *)
(***************************************************************************)
\* Python's None where a string is expected (a one-token sequence that is no text).
None == <<"<None>">>

\* JSON values carry their JSON type, which is what a schema constrains.
JStr(v) == [type |-> "string", v |-> v]
JInt(v) == [type |-> "integer", v |-> v]
JArr(v) == [type |-> "array", v |-> v]
JObj(v) == [type |-> "object", v |-> v]
JBool(v) == [type |-> "boolean", v |-> v]

\* Tokens of the strings the model uses.
IRC == <<"IRC">>
Gitter == <<"Gitter">>
Telegram == <<"Telegram">>
Slack == <<"Slack">>
Irc2 == <<"IRC2">>

ChanA == <<"#a">>
ChanB == <<"#b">>
ChanC == <<"#c">>
Channels == {ChanA, ChanB}

BotNick == "fwdbot"
Authors == {"alice", "bot2", BotNick}

\* Message texts: a plain text, and one that is no valid regular expression.
Texts == {<<"a">>, <<"(">>}

(***************************************************************************)
(* str.split("@", 1) and the two-name unpacking of its result.             *)
(***************************************************************************)
HasAt(s) == \E i \in 1..Len(s) : s[i] = "@"

FirstAt(s) == CHOOSE i \in 1..Len(s) : s[i] = "@" /\ \A j \in 1..(i-1) : s[j] # "@"

\* s.split("@", 1): at most one split, at the first "@".
split(s) ==
    IF HasAt(s)
    THEN <<SubSeq(s, 1, FirstAt(s) - 1), SubSeq(s, FirstAt(s) + 1, Len(s))>>
    ELSE <<s>>

\* "channel, client_id = s.split('@', 1)" raises ValueError unless there are two parts.
unpack_ok(s) == Len(split(s)) = 2
channel_of(s) == split(s)[1]
client_id_of(s) == split(s)[2]

(***************************************************************************)
(* re.match(pattern, string) for patterns over literals, "." and "(".      *)
(***************************************************************************)
\* re.compile raises re.error on an unterminated group.
re_compiles(pattern) == \A i \in 1..Len(pattern) : pattern[i] # "("

\* A match object iff the pattern matches at the start of the string.
re_match(pattern, string) ==
    /\ Len(pattern) <= Len(string)
    /\ \A i \in 1..Len(pattern) : pattern[i] = "." \/ pattern[i] = string[i]

(***************************************************************************)
(* "template % mapping" with named placeholders.                           *)
(***************************************************************************)
Placeholders == {"%(author)s", "%(from_client)s", "%(from_target)s",
                 "%(target)s", "%(msg)s", "%(client_id)s"}

\* KeyError iff the template names a key the mapping lacks.
format_ok(template, mapping) ==
    \A i \in 1..Len(template) :
        template[i] \in Placeholders => template[i] \in DOMAIN mapping

RECURSIVE format(_, _)
format(template, mapping) ==
    IF template = <<>> THEN <<>>
    ELSE (IF Head(template) \in Placeholders
          THEN mapping[Head(template)]
          ELSE <<Head(template)>>) \o format(Tail(template), mapping)

(***************************************************************************)
(* jsonschema.validate(instance, schema) for object schemas: "required",   *)
(* "additionalProperties" and per-property "type" / "enum".                *)
(***************************************************************************)
EmptyMap == [k \in {} |-> {}]

prop_ok(value, constraint) ==
    IF "enum" \in DOMAIN constraint
    THEN value.v \in constraint.enum
    ELSE value.type = constraint.type

\* TRUE iff jsonschema.validate does not raise ValidationError.
jsonschema_ok(instance, schema) ==
    /\ schema.required \subseteq DOMAIN instance
    /\ schema.additionalProperties \/ DOMAIN instance \subseteq DOMAIN schema.properties
    /\ \A k \in DOMAIN instance \cap DOMAIN schema.properties :
           prop_ok(instance[k], schema.properties[k])

\* The schema {}: it constrains nothing.
EmptySchema == [properties |-> EmptyMap, additionalProperties |-> TRUE, required |-> {}]

RULE_SCHEMA ==
    [properties |-> [from |-> [type |-> "string"],
                     send_to |-> [type |-> "string"],
                     nicknames |-> [type |-> "array"],
                     ignore_nicknames |-> [type |-> "array"],
                     regexp |-> [type |-> "string"]],
     additionalProperties |-> FALSE,
     required |-> {"from", "send_to"}]

(***************************************************************************)
(* The transport classes: BaseTransport and its three subclasses.          *)
(***************************************************************************)
\* _transports after load_plugins(): NAME of every subclass of BaseTransport.
TransportKinds == {"irc", "Gitter", "telegram"}

\* cls.MSG_TEMPLATE: IRCClient inherits BaseTransport's.
MSG_TEMPLATE(kind) ==
    CASE kind = "Gitter" ->
           <<"*[From ", "%(from_client)s", "]* **", "%(author)s", "** : ", "%(msg)s">>
      [] kind = "telegram" ->
           <<"_[From ", "%(from_client)s", "]_ *", "%(author)s", "* : ", "%(msg)s">>
      [] OTHER ->
           <<"[From ", "%(from_client)s", "] ", "%(author)s", " : ", "%(msg)s">>

\* cls.CLIENT_SCHEMA, the schema each transport kind declares for its config.
CLIENT_SCHEMA(kind) ==
    CASE kind = "irc" ->
           [properties |-> [transport |-> [enum |-> {"irc"}],
                            server |-> [type |-> "string"],
                            port |-> [type |-> "integer"],
                            use_ssl |-> [type |-> "boolean"],
                            nickname |-> [type |-> "string"],
                            password |-> [type |-> "string"],
                            ident |-> [type |-> "string"],
                            realname |-> [type |-> "string"],
                            channels |-> [type |-> "array"]],
            additionalProperties |-> FALSE,
            required |-> {"server", "port", "nickname"}]
      [] kind = "Gitter" ->
           [properties |-> [transport |-> [enum |-> {"gitter"}],
                            token |-> [type |-> "string"],
                            channels |-> [type |-> "array"],
                            msg_template |-> [type |-> "string"]],
            additionalProperties |-> FALSE,
            required |-> {"token"}]
      [] OTHER ->
           [properties |-> [transport |-> [enum |-> {"telegram"}],
                            token |-> [type |-> "string"],
                            channels |-> [type |-> "object"]],
            additionalProperties |-> FALSE,
            required |-> {"token"}]

\* cls.CONFIG_SCHEMA: defined on BaseTransport as {} and overridden by no subclass.
CONFIG_SCHEMA(kind) == EmptySchema

\* BaseTransport.validate(cfg): jsonschema.validate(cfg, cls.CONFIG_SCHEMA).
transport_validate(kind, cfg) == jsonschema_ok(cfg, CONFIG_SCHEMA(kind))

\* BaseTransport.__init__ that never reads the configured "msg_template".
BaseTransport_class_template(kind, client_id, client_cfg) ==
    [kind |-> kind, client_id |-> client_id, msg_template |-> MSG_TEMPLATE(kind)]

\* BaseTransport.__init__: the transport object of a client.
BaseTransport(kind, client_id, client_cfg) ==
    [kind |-> kind,
     client_id |-> client_id,
     msg_template |-> IF "msg_template" \in DOMAIN client_cfg
                      THEN client_cfg.msg_template.v
                      ELSE MSG_TEMPLATE(kind)]

\* Keys a subclass constructor reads with cfg[...] (KeyError when absent).
init_keys(kind) == IF kind = "Gitter" THEN {"token"} ELSE {}

\* Keys _connect reads with cfg[...] before it returns to connect()'s caller.
connect_keys(kind) ==
    IF kind = "irc" THEN {"server", "port", "nickname", "channels"} ELSE {}

(***************************************************************************)
(* Configurations the program is started with.                             *)
(***************************************************************************)
Ep(channel, client_id) == channel \o <<"@">> \o client_id

Rule(from, to) == [from |-> JStr(from), send_to |-> JStr(to)]

With(dict, key, value) == [k \in DOMAIN dict \cup {key} |-> IF k = key THEN value ELSE dict[k]]

Without(dict, key) == [k \in DOMAIN dict \ {key} |-> dict[k]]

IrcCfg ==
    [transport |-> JStr("irc"), server |-> JStr("chat.freenode.net"), port |-> JInt(<<"6667">>),
     nickname |-> JStr(BotNick), channels |-> JArr(<<ChanA, ChanB>>)]

GitterCfg == [transport |-> JStr("Gitter"), token |-> JStr("secret"), channels |-> JArr(<<ChanB>>)]

TelegramCfg == [transport |-> JStr("telegram"), token |-> JStr("secret")]

\* A telegram client configured with the chats it knows (chat title -> chat id).
TelegramKnown == With(TelegramCfg, "channels", JObj([n \in {ChanC} |-> "-300"]))

\* A template written with the keys the Gitter schema documents (client_id, author, msg).
TplDocumented == <<"%(client_id)s", "> ", "%(author)s", ": ", "%(msg)s">>

\* A template written with keys say() supplies.
TplSupplied == <<"%(from_client)s", "> ", "%(author)s", ": ", "%(msg)s">>

Registry(irc, gitter, telegram) ==
    [c \in {IRC, Gitter, Telegram} |->
        IF c = IRC THEN irc ELSE IF c = Gitter THEN gitter ELSE telegram]

\* Rules: a deny list, a second rule on the same source, two regexps, two return paths,
\* a second rule to the same destination transport.
RDeny == With(Rule(Ep(ChanA, IRC), Ep(ChanB, Gitter)), "ignore_nicknames", JArr(<<"bot2">>))
RFan == Rule(Ep(ChanA, IRC), Ep(ChanC, Telegram))
RDot == With(Rule(Ep(ChanA, IRC), Ep(ChanB, Gitter)), "regexp", JStr(<<".">>))
RLit == With(With(Rule(Ep(ChanA, IRC), Ep(ChanC, Telegram)), "regexp", JStr(<<"a", ".">>)),
             "nicknames", JArr(<<"alice">>))
RBack == Rule(Ep(ChanB, Gitter), Ep(ChanA, IRC))
RTg == Rule(Ep(ChanA, Telegram), Ep(ChanB, IRC))
RBack2 == Rule(Ep(ChanB, Gitter), Ep(ChanB, IRC))

Overridden(cfg) == With(cfg, "msg_template", JStr(TplSupplied))

\* The configurations the forwarding behaviour is explored from.
Scenarios ==
    {[clients |-> Registry(IrcCfg, GitterCfg, TelegramCfg), rules |-> <<RDeny, RFan>>],
     [clients |-> Registry(IrcCfg, With(GitterCfg, "msg_template", JStr(TplDocumented)),
                           TelegramCfg),
      rules |-> <<RDeny, RFan>>],
     [clients |-> Registry(Overridden(IrcCfg), GitterCfg, TelegramCfg),
      rules |-> <<RDeny, RFan>>],
     [clients |-> Registry(IrcCfg, GitterCfg, TelegramCfg), rules |-> <<RDot, RLit>>],
     [clients |-> Registry(IrcCfg, GitterCfg, TelegramKnown), rules |-> <<RBack, RTg>>],
     [clients |-> Registry(Overridden(IrcCfg), GitterCfg, TelegramCfg),
      rules |-> <<RBack, RTg>>],
     [clients |-> Registry(IrcCfg, GitterCfg, TelegramCfg), rules |-> <<RBack, RBack2>>]}

(***************************************************************************)
(* Forwarder.validate(clients, rules)                                      *)
(***************************************************************************)
\* client_ok without the test for an unregistered transport kind.
client_ok_any_kind(cfg) ==
    /\ "transport" \in DOMAIN cfg
    /\ transport_validate(cfg.transport.v, cfg)

\* One iteration of the loop over clients: FALSE iff it returns None.
client_ok(cfg) ==
    /\ "transport" \in DOMAIN cfg
    /\ cfg.transport.v \in TransportKinds
    /\ transport_validate(cfg.transport.v, cfg)

\* The conditional expression assigned to missed_user (None when both ids are known).
missed_user(rule, cs) ==
    IF client_id_of(rule.from.v) \notin DOMAIN cs THEN client_id_of(rule.from.v)
    ELSE IF client_id_of(rule.send_to.v) \notin DOMAIN cs THEN client_id_of(rule.send_to.v)
    ELSE None

\* Python truth value of a string-or-None.
truthy(x) == x # None /\ x # <<>>

\* The jsonschema check and the two unpackings of one rule: FALSE iff one raises.
rule_parses(rule) ==
    /\ jsonschema_ok(rule, RULE_SCHEMA)
    /\ unpack_ok(rule.from.v)
    /\ unpack_ok(rule.send_to.v)

\* A loop over rules that skips a rule it cannot parse instead of raising.
RECURSIVE validated_rules_dropping(_, _)
validated_rules_dropping(rs, cs) ==
    IF rs = <<>> THEN [raised |-> FALSE, rules |-> <<>>]
    ELSE LET rest == validated_rules_dropping(Tail(rs), cs) IN
         IF ~rule_parses(Head(rs)) THEN rest
         ELSE IF truthy(missed_user(Head(rs), cs)) THEN rest
         ELSE [rest EXCEPT !.rules = <<Head(rs)>> \o @]

\* The loop over rules: whether it raised, and validated_rules otherwise.
RECURSIVE validated_rules(_, _)
validated_rules(rs, cs) ==
    IF rs = <<>> THEN [raised |-> FALSE, rules |-> <<>>]
    ELSE IF ~rule_parses(Head(rs)) THEN [raised |-> TRUE, rules |-> <<>>]
    ELSE LET rest == validated_rules(Tail(rs), cs) IN
         IF rest.raised THEN rest
         ELSE IF truthy(missed_user(Head(rs), cs)) THEN rest
         ELSE [rest EXCEPT !.rules = <<Head(rs)>> \o @]

\* The result of validate: "none" (returned None), "raised", or "ok" with the rules.
Forwarder_validate(cs, rs) ==
    IF \E c \in DOMAIN cs : ~client_ok(cs[c]) THEN [result |-> "none", rules |-> <<>>]
    ELSE IF validated_rules(rs, cs).raised THEN [result |-> "raised", rules |-> <<>>]
    ELSE [result |-> "ok", rules |-> validated_rules(rs, cs).rules]

(***************************************************************************)
(* run(): validate, construct the Forwarder, start it.                     *)
(***************************************************************************)
KindOf(c) == clients[c].transport.v

NoCall ==
    [called |-> FALSE, sender |-> <<>>, user |-> "", target |-> <<>>, text |-> <<>>,
     raised |-> FALSE, issued |-> <<>>]

\* No event was published yet.
NoEvent == [on |-> <<>>, by |-> <<>>, user |-> "", target |-> <<>>, text |-> <<>>]

\* The path of a configuration file that exists, and of one that does not.
ConfigPath == "config.yaml"
MissingPath == "missing.yaml"

InitWith(cs, rs) ==
    /\ args = <<ConfigPath>>
    /\ printed = <<>>
    /\ clients = cs
    /\ self_clients = cs
    /\ rules = rs
    /\ pc = "validate"
    /\ self_rules = <<>>
    /\ transports = EmptyMap
    /\ subscribed = FALSE
    /\ connected = {}
    /\ session = [c \in DOMAIN cs |-> "none"]
    /\ loops = {}
    /\ updates = [c \in DOMAIN cs |-> <<>>]
    /\ tasks = <<>>
    /\ last = NoCall
    /\ published = NoEvent
    /\ self_rooms = [c \in DOMAIN cs |-> {}]
    /\ joined = {}
    /\ offset = [c \in DOMAIN cs |-> 0]
    /\ forwarded = [c \in DOMAIN cs |-> {}]

Init == \E sc \in Scenarios : InitWith(sc.clients, sc.rules)

\* run(): resp = Forwarder.validate(...); sys.exit(1) if resp is None.
Validate ==
    /\ pc = "validate"
    /\ LET resp == Forwarder_validate(clients, rules) IN
        /\ pc' = CASE resp.result = "none" -> "exit1"
                    [] resp.result = "raised" -> "raised"
                    [] OTHER -> "construct"
        /\ self_rules' = resp.rules
    /\ UNCHANGED <<published, self_rooms, joined, offset, forwarded, args, printed, updates,
                   clients, self_clients, rules, transports, subscribed, connected, session,
                   loops, tasks, last>>

\* Clients whose transport constructor returns normally.
constructible(c) == init_keys(KindOf(c)) \subseteq DOMAIN clients[c]

\* Forwarder.__init__ that builds the transports and does not connect on_message.
Construct_unsubscribed ==
    /\ pc = "construct"
    /\ IF \A c \in DOMAIN clients : constructible(c)
       THEN /\ transports' = [c \in DOMAIN clients |->
                                 BaseTransport(KindOf(c), c, clients[c])]
            /\ subscribed' = FALSE
            /\ pc' = "start"
       ELSE /\ \E built \in SUBSET {c \in DOMAIN clients : constructible(c)} :
                 transports' = [c \in built |-> BaseTransport(KindOf(c), c, clients[c])]
            /\ subscribed' = FALSE
            /\ pc' = "raised"
    /\ self_clients' = [c \in DOMAIN clients |->
                            IF c \in DOMAIN transports'
                            THEN With(self_clients[c], "client", transports'[c])
                            ELSE self_clients[c]]
    /\ UNCHANGED <<published, self_rooms, joined, offset, forwarded, args, printed, updates,
                   clients, rules, self_rules, connected, session, loops, tasks, last>>

\* Forwarder.__init__: one transport per client, stored in the client's config dict
\* under the key "client", then subscribe on_message.
\* A constructor that raises leaves the transports built before it (dict order).
Construct ==
    /\ pc = "construct"
    /\ IF \A c \in DOMAIN clients : constructible(c)
       THEN /\ transports' = [c \in DOMAIN clients |->
                                 BaseTransport(KindOf(c), c, clients[c])]
            /\ subscribed' = TRUE
            /\ pc' = "start"
       ELSE /\ \E built \in SUBSET {c \in DOMAIN clients : constructible(c)} :
                 transports' = [c \in built |-> BaseTransport(KindOf(c), c, clients[c])]
            /\ subscribed' = FALSE
            /\ pc' = "raised"
    /\ self_clients' = [c \in DOMAIN clients |->
                            IF c \in DOMAIN transports'
                            THEN With(self_clients[c], "client", transports'[c])
                            ELSE self_clients[c]]
    /\ UNCHANGED <<published, self_rooms, joined, offset, forwarded, args, printed, updates,
                   clients, rules, self_rules, connected, session, loops, tasks, last>>

\* Forwarder.start: connect() on the next client of the loop.  IRCClient._connect runs
\* inside connect(); the Gitter and telegram _connect are scheduled as tasks.
Connect(c) ==
    /\ pc = "start"
    /\ c \in DOMAIN clients \ connected
    /\ connected' = connected \cup {c}
    /\ IF connect_keys(KindOf(c)) \subseteq DOMAIN clients[c]
       THEN /\ session' = [session EXCEPT ![c] = "connecting"]
            /\ pc' = pc
       ELSE /\ session' = session
            /\ pc' = "raised"
    /\ UNCHANGED <<published, self_rooms, joined, offset, forwarded, args, printed, updates,
                   clients, self_clients, rules, self_rules, transports, subscribed, loops,
                   tasks, last>>

\* start() that enters the event loop without finishing the loop over the clients.
RunForever_early ==
    /\ pc = "start"
    /\ pc' = "running"
    /\ UNCHANGED <<published, self_rooms, joined, offset, forwarded, args, printed, updates,
                   clients, self_clients, rules, self_rules, transports, subscribed,
                   connected, session, loops, tasks, last>>

\* Forwarder.start: asyncio.get_event_loop().run_forever().
RunForever ==
    /\ pc = "start"
    /\ connected = DOMAIN clients
    /\ pc' = "running"
    /\ UNCHANGED <<published, self_rooms, joined, offset, forwarded, args, printed, updates,
                   clients, self_clients, rules, self_rules, transports, subscribed,
                   connected, session, loops, tasks, last>>

(***************************************************************************)
(* The transports' sessions.                                               *)
(***************************************************************************)
\* The identity a transport is connected as (message.client.nick, self._user).
identity(c) == IF "nickname" \in DOMAIN clients[c] THEN clients[c].nickname.v ELSE BotNick

\* self._client_cfg.get("channels", []) of a Gitter client.
requested_rooms(c) ==
    IF "channels" \in DOMAIN clients[c]
    THEN {clients[c].channels.v[i] : i \in 1..Len(clients[c].channels.v)}
    ELSE {}

\* GitterClient._connect: set(self._rooms.keys()) - set(requested_rooms).
rooms_to_join(rooms, requested) == rooms \ requested

\* The receive loops a successful _connect starts: one per requested room (Gitter; the
\* loop of a room that is not in self._rooms ends at once, "room_id =
\* self._rooms[room_name]" raises KeyError), the polling loop (telegram), none (irc:
\* the library pushes events).
started_loops(c, rooms) ==
    CASE KindOf(c) = "Gitter" -> {<<c, r>> : r \in requested_rooms(c) \cap rooms}
      [] KindOf(c) = "telegram" -> {<<c, <<>>>>}
      [] OTHER -> {}

\* The scheduled connection attempt succeeds: the session is up and its receive loops
\* run.  For Gitter, account is the set of rooms the API lists for the user: they
\* become self._rooms, _join_room is called for rooms_to_join (it stores the id of a
\* room that is already a key of self._rooms), and the listen loops are started.
SessionUp(c, account) ==
    /\ pc = "running"
    /\ c \in DOMAIN clients
    /\ session[c] = "connecting"
    /\ KindOf(c) = "irc" \/ "token" \in DOMAIN clients[c]
    /\ KindOf(c) = "Gitter" \/ account = {}
    /\ self_rooms' = [self_rooms EXCEPT ![c] = account]
    /\ joined' = IF KindOf(c) = "Gitter"
                 THEN joined \cup
                          {<<c, r>> : r \in rooms_to_join(account, requested_rooms(c))}
                 ELSE joined
    /\ loops' = loops \cup started_loops(c, account)
    /\ session' = [session EXCEPT ![c] = "listening"]
    /\ UNCHANGED <<published, offset, forwarded, args, printed, updates, clients,
                   self_clients, rules, pc, self_rules, transports, subscribed, connected,
                   tasks, last>>

\* The connection attempt fails (network error, rejected credentials): no receive loop.
SessionFail(c) ==
    /\ pc = "running"
    /\ c \in DOMAIN clients
    /\ session[c] = "connecting"
    /\ session' = [session EXCEPT ![c] = "failed"]
    /\ UNCHANGED <<published, self_rooms, joined, offset, forwarded, args, printed, updates,
                   clients, self_clients, rules, pc, self_rules, transports, subscribed,
                   connected, loops, tasks, last>>

(***************************************************************************)
(* BaseTransport.say and Forwarder.on_message                              *)
(***************************************************************************)
InArr(x, arr) == \E i \in 1..Len(arr.v) : arr.v[i] = x

\* The dict say() formats the template with.
say_mapping(author, from_client, from_target, target, msg) ==
    [k \in {"%(author)s", "%(from_client)s", "%(from_target)s", "%(target)s", "%(msg)s"} |->
        CASE k = "%(author)s" -> <<author>>
          [] k = "%(from_client)s" -> from_client
          [] k = "%(from_target)s" -> from_target
          [] k = "%(target)s" -> target
          [] OTHER -> msg]

\* say(): KeyError from the % operator, else the coroutine _say(target, msg) to schedule.
say(to_client_id, author, from_client, from_target, target, msg) ==
    LET tpl == transports[to_client_id].msg_template
        mapping == say_mapping(author, from_client, from_target, target, msg)
    IN IF ~format_ok(tpl, mapping)
       THEN [raised |-> TRUE, task |-> <<>>]
       ELSE [raised |-> FALSE,
             task |-> <<[client |-> to_client_id, channel |-> target,
                         text |-> format(tpl, mapping)]>>]

\* The "regexp" test of on_message: "raise" (re.error), "skip" (continue) or "pass".
regexp_test(rule, text) ==
    IF "regexp" \notin DOMAIN rule THEN "pass"
    ELSE IF ~re_compiles(text) THEN "raise"
    ELSE IF ~re_match(text, rule.regexp.v) THEN "skip"
    ELSE "pass"

\* The endpoint and nickname tests of on_message: TRUE iff none of them continues.
rule_fits(rule, sender, user, target) ==
    /\ ~(client_id_of(rule.from.v) # sender \/ channel_of(rule.from.v) # target)
    /\ ~("nicknames" \in DOMAIN rule /\ ~InArr(user, rule.nicknames))
    /\ ~("ignore_nicknames" \in DOMAIN rule /\ InArr(user, rule.ignore_nicknames))

\* The body of the loop for one rule: "raise", "skip", or "send" with the scheduled task.
rule_step(rule, sender, user, target, text) ==
    IF ~unpack_ok(rule.from.v) THEN [do |-> "raise", task |-> <<>>]
    ELSE IF ~rule_fits(rule, sender, user, target) THEN [do |-> "skip", task |-> <<>>]
    ELSE IF regexp_test(rule, text) # "pass" THEN [do |-> regexp_test(rule, text), task |-> <<>>]
    ELSE IF ~unpack_ok(rule.send_to.v) THEN [do |-> "raise", task |-> <<>>]
    ELSE IF client_id_of(rule.send_to.v) \notin DOMAIN transports
         THEN [do |-> "raise", task |-> <<>>]
    ELSE LET s == say(client_id_of(rule.send_to.v), user, client_id_of(rule.from.v),
                      target, channel_of(rule.send_to.v), text)
         IN IF s.raised THEN [do |-> "raise", task |-> <<>>]
            ELSE [do |-> "send", task |-> s.task]

\* The loop with each new coroutine put in front of the ones already created.
RECURSIVE rule_loop_lifo(_, _, _, _, _, _)
rule_loop_lifo(rs, sender, user, target, text, issued) ==
    IF rs = <<>> THEN [raised |-> FALSE, issued |-> issued]
    ELSE LET step == rule_step(Head(rs), sender, user, target, text) IN
         IF step.do = "raise" THEN [raised |-> TRUE, issued |-> issued]
         ELSE rule_loop_lifo(Tail(rs), sender, user, target, text, step.task \o issued)

\* "for rule in self._rules": the tasks scheduled, and whether an exception ended it.
RECURSIVE rule_loop(_, _, _, _, _, _)
rule_loop(rs, sender, user, target, text, issued) ==
    IF rs = <<>> THEN [raised |-> FALSE, issued |-> issued]
    ELSE LET step == rule_step(Head(rs), sender, user, target, text) IN
         IF step.do = "raise" THEN [raised |-> TRUE, issued |-> issued]
         ELSE rule_loop(Tail(rs), sender, user, target, text, issued \o step.task)

\* Forwarder.on_message(sender, user, target, text): textwrap.indent(None, ..) raises.
on_message(sender, user, target, text) ==
    IF text = None THEN [raised |-> TRUE, issued |-> <<>>]
    ELSE rule_loop(self_rules, sender, user, target, text, <<>>)

\* say() that awaits each _say instead of scheduling it: nothing is left on the loop.
schedule_awaited(pending, issued) == pending

\* Where create_task puts the coroutines of one on_message call: on the event loop.
schedule(pending, issued) == pending \o issued

\* BaseTransport._forward_message of client c, for an event received on the session
\* of client on: the signal calls its receivers (on_message, once subscribed) before
\* it returns.
Publish(on, c, user, target, text) ==
    LET r == on_message(c, user, target, text) IN
    /\ Len(tasks) + Len(r.issued) <= MaxTasks
    /\ published' = [on |-> on, by |-> c, user |-> user, target |-> target, text |-> text]
    /\ IF subscribed
       THEN /\ tasks' = schedule(tasks, r.issued)
            /\ last' = [called |-> TRUE, sender |-> c, user |-> user, target |-> target,
                        text |-> text, raised |-> r.raised, issued |-> r.issued]
       ELSE UNCHANGED <<tasks, last>>

(***************************************************************************)
(* Receiving: each transport decodes an event and publishes it.            *)
(***************************************************************************)
\* IRCClient.on_message, connected to the library's "message" signal: the event of
\* connection y reaches the handler of x.
IrcOnMessage(x, y, nick, target, text) ==
    /\ pc = "running"
    /\ x \in connected /\ KindOf(x) = "irc"
    /\ y \in DOMAIN clients /\ KindOf(y) = "irc" /\ session[y] = "listening"
    /\ nick # identity(y)
    /\ Publish(y, x, nick, target, text)
    /\ UNCHANGED <<self_rooms, joined, offset, forwarded, args, printed, updates, clients,
                   self_clients, rules, pc, self_rules, transports, subscribed, connected,
                   session, loops>>

\* GitterClient._listen_messages: one decoded line of the room's stream.  An exception
\* out of _forward_message ends the coroutine, i.e. the room's receive loop.
GitterListen(c, room, author, text) ==
    /\ pc = "running"
    /\ <<c, room>> \in loops /\ KindOf(c) = "Gitter"
    /\ author # identity(c)
    /\ Publish(c, c, author, room, text)
    /\ loops' = IF last'.raised THEN loops \ {<<c, room>>} ELSE loops
    /\ UNCHANGED <<self_rooms, joined, offset, forwarded, args, printed, updates, clients,
                   self_clients, rules, pc, self_rules, transports, subscribed, connected,
                   session>>

\* "if not room/chat known: self._channels[channel_name] = channel_id": _channels is
\* the config's own "channels" dict when the config has one (cfg.get returns it).
ChatId == "-100"

detect_channel(cfg, chat) ==
    IF "channels" \in DOMAIN cfg /\ chat \notin DOMAIN cfg.channels.v
    THEN With(cfg, "channels", JObj(With(cfg.channels.v, chat, ChatId)))
    ELSE cfg

\* TelegramClient._listen_for_update: session.get(getUpdates) returns a list of updates,
\* in the order of their update_ids.  The request carries the offset once it is set,
\* and the server then returns no update below it.
TelegramPoll(c, batch) ==
    /\ pc = "running"
    /\ <<c, <<>>>> \in loops /\ KindOf(c) = "telegram"
    /\ updates[c] = <<>>
    /\ offset[c] # 0 => \A i \in 1..Len(batch) : batch[i].update_id >= offset[c]
    /\ updates' = [updates EXCEPT ![c] = batch]
    /\ UNCHANGED <<published, self_rooms, joined, offset, forwarded, args, printed, clients,
                   self_clients, rules, pc, self_rules, transports, subscribed, connected,
                   session, loops, tasks, last>>

\* An iteration that takes the newest update of the list.
newest_update(batch) == batch[Len(batch)]

\* "for update in updates": the update the next iteration handles.
next_update(batch) == Head(batch)

\* An offset that stays on the update just published.
same_offset(update) == update.update_id

\* "offset = update['update_id'] + 1", assigned just before the update is published.
next_offset(update) == update.update_id + 1

\* TelegramClient._listen_for_update: one iteration of "for update in updates".  An
\* update without "text" is skipped and leaves the offset alone; otherwise the chat is
\* recorded, the offset is moved behind the update and the message is published.  An
\* exception out of _forward_message ends the coroutine.
TelegramUpdate(c) ==
    /\ pc = "running"
    /\ <<c, <<>>>> \in loops /\ KindOf(c) = "telegram"
    /\ updates[c] # <<>>
    /\ LET update == next_update(updates[c]) IN
       IF update.text = None
       THEN /\ updates' = [updates EXCEPT ![c] = Tail(@)]
            /\ UNCHANGED <<self_clients, loops, tasks, last, published, offset, forwarded>>
       ELSE /\ self_clients' =
                   [self_clients EXCEPT ![c] = detect_channel(@, update.chat)]
            /\ offset' = [offset EXCEPT ![c] = next_offset(update)]
            /\ forwarded' = [forwarded EXCEPT ![c] = @ \cup {update.update_id}]
            /\ Publish(c, c, update.author, update.chat, update.text)
            /\ loops' = IF last'.raised THEN loops \ {<<c, <<>>>>} ELSE loops
            /\ updates' = [updates EXCEPT ![c] = IF last'.raised THEN <<>> ELSE Tail(@)]
    /\ UNCHANGED <<self_rooms, joined, args, printed, clients, rules, pc, self_rules,
                   transports, subscribed, connected, session>>

\* A request of a receive loop raises (aiohttp error on the Gitter stream or on the
\* telegram poll, a response that is no JSON): nothing catches it, the coroutine ends.
\* (A stream that merely ends, or a poll answered "not ok", leaves the loop as it is.)
RequestFails(c, room) ==
    /\ pc = "running"
    /\ <<c, room>> \in loops
    /\ loops' = loops \ {<<c, room>>}
    /\ updates' = [updates EXCEPT ![c] = <<>>]
    /\ UNCHANGED <<published, self_rooms, joined, offset, forwarded, args, printed, clients,
                   self_clients, rules, pc, self_rules, transports, subscribed, connected,
                   session, tasks, last>>

\* A scheduled _say coroutine finishes (delivered, failed or timed out): nothing is
\* reported back to the Forwarder.
TaskDone(i) ==
    /\ pc = "running"
    /\ i \in 1..Len(tasks)
    /\ tasks' = SubSeq(tasks, 1, i - 1) \o SubSeq(tasks, i + 1, Len(tasks))
    /\ UNCHANGED <<published, self_rooms, joined, offset, forwarded, args, printed, updates,
                   clients, self_clients, rules, pc, self_rules, transports, subscribed,
                   connected, session, loops, last>>

ClientIds == {IRC, Irc2, Gitter, Telegram}

\* What the networks deliver: IRC events from Authors x Channels x Texts; Gitter stream
\* lines with or without a "text"; telegram updates of one chat.
GitterAuthors == {"alice", BotNick}
GitterTexts == {<<"a">>, None}

\* An update with a text and an author, and one without "text" (a photo).
TgUpdate(author) == [author |-> author, chat |-> ChanA, text |-> <<"a">>]
TgPhoto == [author |-> "alice", chat |-> ChanA, text |-> None]

\* The updates of a result carry consecutive update_ids, from first on.
Numbered(batch, first) ==
    [i \in 1..Len(batch) |-> With(batch[i], "update_id", first + i - 1)]

\* Results of getUpdates: the updates of a result come in the order of their ids.
TelegramBatches ==
    {<<TgUpdate("alice")>>,
     <<TgUpdate("alice"), TgUpdate(BotNick)>>,
     <<TgUpdate(BotNick), TgUpdate("alice")>>,
     <<TgPhoto, TgUpdate("alice")>>}

Startup ==
    \/ Validate
    \/ Construct
    \/ \E c \in ClientIds : Connect(c)
    \/ RunForever

Next ==
    \/ Startup
    \/ \E c \in ClientIds, account \in SUBSET {ChanB} : SessionUp(c, account)
    \/ \E c \in ClientIds : SessionFail(c)
    \/ \E x, y \in ClientIds, nick \in Authors, target \in Channels, text \in Texts :
          IrcOnMessage(x, y, nick, target, text)
    \/ \E c \in ClientIds, room \in Channels, author \in GitterAuthors,
          text \in GitterTexts :
          GitterListen(c, room, author, text)
    \/ \E c \in ClientIds, batch \in TelegramBatches : TelegramPoll(c, Numbered(batch, 1))
    \/ \E c \in ClientIds : TelegramUpdate(c)
    \/ \E c \in ClientIds, room \in Channels \cup {<<>>} : RequestFails(c, room)
    \/ \E i \in 1..MaxTasks : TaskDone(i)

Spec == Init /\ [][Next]_vars

(***************************************************************************)
(* Startup, explored over valid and invalid configurations.                *)
(***************************************************************************)
BoundedSeq(S, n) == UNION {[1..k -> S] : k \in 0..n}

\* An irc client: valid, or with a missing, mistyped or extra field, or naming a
\* transport kind that is not registered, or naming none.
IrcVariants ==
    {IrcCfg,
     Without(IrcCfg, "server"),
     Without(IrcCfg, "channels"),
     With(IrcCfg, "port", JStr(<<"6667">>)),
     With(IrcCfg, "colour", JStr(<<"red">>)),
     With(IrcCfg, "transport", JStr("xmpp")),
     Without(IrcCfg, "transport")}

GitterVariants == {GitterCfg, Without(GitterCfg, "token")}

Optional(c, cfgs) == {EmptyMap} \cup {[k \in {c} |-> cfg] : cfg \in cfgs}

Merge(f, g) == [k \in DOMAIN f \cup DOMAIN g |-> IF k \in DOMAIN f THEN f[k] ELSE g[k]]

StartupClients ==
    {Merge(i, Merge(g, t)) : i \in Optional(IRC, IrcVariants),
                             g \in Optional(Gitter, GitterVariants),
                             t \in Optional(Telegram, {TelegramCfg})}

\* A rule whose "from" holds two "@".
RTwoAts == Rule(<<"#a", "@", "x", "@", "IRC">>, Ep(ChanB, Gitter))

\* Rules the schema or the unpacking rejects: no "send_to", a key the schema does
\* not know, a "from" without "@".
RNoSendTo == [from |-> JStr(Ep(ChanA, IRC))]
RExtraKey == With(RFan, "msg_template", JStr(TplSupplied))
RNoAt == Rule(<<"#a">>, Ep(ChanB, Gitter))

\* Rules naming configured clients, an unconfigured one, or an empty client id, and
\* malformed rules.
RulePool ==
    {RDeny, RFan, RBack, RTwoAts,
     Rule(Ep(ChanA, IRC), Ep(ChanB, Slack)),
     Rule(Ep(ChanA, Slack), Ep(ChanB, Gitter)),
     Rule(Ep(ChanA, IRC), Ep(ChanB, <<>>)),
     RNoSendTo, RExtraKey, RNoAt}

\* The example configuration of the module documentation: two clients written
\* with the keys of an irc connection and without "transport"; three rules, two of
\* them with a "msg_template".
DocRoom == <<"#openstack-rally">>
DocLobby == <<"#xRally/Lobby">>
DocStatuses == <<"#xRally/statuses">>
DocTemplate == <<"*[From ", "%(client_id)s", "]* **", "%(author)s", "** : ", "%(msg)s">>

DocClients ==
    [c \in {IRC, Gitter} |->
        IF c = IRC
        THEN [server |-> JStr("chat.freenode.net"), port |-> JInt(<<"6667">>),
              nickname |-> JStr("rallydev-bot"), ident |-> JStr("Mr.Gitter~"),
              realname |-> JStr("https://gitter.im/xRally/Lobby"),
              channels |-> JArr(<<DocRoom>>)]
        ELSE [server |-> JStr("irc.gitter.im"), port |-> JInt(<<"6697">>),
              use_ssl |-> JBool("true"), nickname |-> JStr("rallydev-bot"),
              password |-> JStr("hahaha"), ident |-> JStr("Mr.Gitter~"),
              realname |-> JStr("https://gitter.im/xRally/Lobby"),
              channels |-> JArr(<<DocLobby, DocStatuses>>)]]

DocRules ==
    <<With(With(Rule(Ep(DocRoom, IRC), Ep(DocLobby, Gitter)),
                "ignore_nicknames", JArr(<<"openstackgerrit">>)),
           "msg_template", JStr(DocTemplate)),
      With(With(Rule(Ep(DocRoom, IRC), Ep(DocStatuses, Gitter)),
                "nicknames", JArr(<<"openstackgerrit">>)),
           "msg_template", JStr(DocTemplate)),
      Rule(Ep(DocLobby, Gitter), Ep(DocRoom, IRC))>>

InitStartup ==
    \/ \E cs \in StartupClients, rs \in BoundedSeq(RulePool, MaxRules) : InitWith(cs, rs)
    \/ InitWith(DocClients, DocRules)

SpecStartup == InitStartup /\ [][Startup]_vars

(***************************************************************************)
(* Two irc clients: every IRCClient connects its on_message to the same    *)
(* named signal of the irc library, blinker.signal("message").             *)
(***************************************************************************)
\* A second irc client, on another network.
Irc2Cfg ==
    [transport |-> JStr("irc"), server |-> JStr("irc.oftc.net"), port |-> JInt(<<"6667">>),
     nickname |-> JStr("bot2"), channels |-> JArr(<<ChanA>>)]

TwoIrcClients == [c \in {IRC, Irc2} |-> IF c = IRC THEN IrcCfg ELSE Irc2Cfg]

InitTwoIrc == InitWith(TwoIrcClients, <<Rule(Ep(ChanA, IRC), Ep(ChanA, Irc2))>>)

NextTwoIrc ==
    \/ Startup
    \/ \E c \in ClientIds : SessionUp(c, {})
    \/ \E c \in ClientIds : SessionFail(c)
    \/ \E x, y \in ClientIds, nick \in Authors, target \in Channels, text \in Texts :
          IrcOnMessage(x, y, nick, target, text)
    \/ \E i \in 1..MaxTasks : TaskDone(i)

SpecTwoIrc == InitTwoIrc /\ [][NextTwoIrc]_vars

(***************************************************************************)
(* A Gitter client with the rooms #a and #b configured, whose account is   *)
(* in any of the rooms #a, #b and #c.                                      *)
(***************************************************************************)
GitterTwoRooms == With(GitterCfg, "channels", JArr(<<ChanA, ChanB>>))

InitGitter ==
    InitWith([c \in {IRC, Gitter} |-> IF c = IRC THEN IrcCfg ELSE GitterTwoRooms],
             <<RBack>>)

NextGitter ==
    \/ Startup
    \/ \E c \in ClientIds, account \in SUBSET {ChanA, ChanB, ChanC} :
          SessionUp(c, account)
    \/ \E c \in ClientIds : SessionFail(c)
    \/ \E c \in ClientIds, room \in Channels, author \in GitterAuthors,
          text \in GitterTexts :
          GitterListen(c, room, author, text)
    \/ \E c \in ClientIds, room \in Channels : RequestFails(c, room)
    \/ \E i \in 1..MaxTasks : TaskDone(i)

SpecGitter == InitGitter /\ [][NextGitter]_vars

(***************************************************************************)
(* An irc and a telegram client with a rule in each direction between #a   *)
(* of the one and #a of the other; the telegram server holds a fixed list  *)
(* of updates, and a poll returns a run of it.                             *)
(***************************************************************************)
RToTelegram == Rule(Ep(ChanA, IRC), Ep(ChanA, Telegram))
RFromTelegram == Rule(Ep(ChanA, Telegram), Ep(ChanA, IRC))

\* The updates of the bot, in the order of their ids: a photo, a user's message, a
\* message of the bot's own account, a photo, a user's message.
TelegramFeed ==
    Numbered(<<TgPhoto, TgUpdate("alice"), TgUpdate(BotNick), TgPhoto, TgUpdate("bot2")>>, 1)

InitTelegram ==
    InitWith([c \in {IRC, Telegram} |-> IF c = IRC THEN IrcCfg ELSE TelegramCfg],
             <<RToTelegram, RFromTelegram>>)

NextTelegram ==
    \/ Startup
    \/ \E c \in ClientIds : SessionUp(c, {})
    \/ \E c \in ClientIds : SessionFail(c)
    \/ \E x, y \in ClientIds, nick \in Authors : IrcOnMessage(x, y, nick, ChanA, <<"a">>)
    \/ \E c \in ClientIds, lo \in 1..Len(TelegramFeed) :
          \E hi \in lo..Len(TelegramFeed) : TelegramPoll(c, SubSeq(TelegramFeed, lo, hi))
    \/ \E c \in ClientIds : TelegramUpdate(c)
    \/ \E c \in ClientIds : RequestFails(c, <<>>)
    \/ \E i \in 1..MaxTasks : TaskDone(i)

SpecTelegram == InitTelegram /\ [][NextTelegram]_vars

(***************************************************************************)
(* The single-file forwarder (src/forwarder.py): irc clients only, one     *)
(* on_message for all of them, templates on the rules.                     *)
(***************************************************************************)
forwarder_CLIENT_SCHEMA ==
    [properties |-> [server |-> [type |-> "string"],
                     port |-> [type |-> "integer"],
                     use_ssl |-> [type |-> "boolean"],
                     nickname |-> [type |-> "string"],
                     password |-> [type |-> "string"],
                     ident |-> [type |-> "string"],
                     realname |-> [type |-> "string"],
                     channels |-> [type |-> "array"]],
     additionalProperties |-> FALSE,
     required |-> {"server", "port", "nickname"}]

forwarder_RULE_SCHEMA ==
    [properties |-> [from |-> [type |-> "string"],
                     send_to |-> [type |-> "string"],
                     nicknames |-> [type |-> "array"],
                     ignore_nicknames |-> [type |-> "array"],
                     regexp |-> [type |-> "string"],
                     msg_template |-> [type |-> "string"]],
     additionalProperties |-> FALSE,
     required |-> {"from", "send_to"}]

DEFAULT_MSG_TEMPLATE == <<"[From ", "%(client_id)s", "] ", "%(author)s", " : ", "%(msg)s">>

\* The module global LOG while validate runs: "LOG = None" until run() binds it to a
\* logger, after validate has returned.  A call of a method of None raises
\* AttributeError.
forwarder_LOG == None

\* "LOG.exception(..); return" and "LOG.warning(..); continue": the outcome when the
\* call of LOG returns, or "raised".
forwarder_log(outcome) == IF forwarder_LOG = None THEN "raised" ELSE outcome

\* One iteration of the loop over rules: "raised", "none" (return None), "skip"
\* (continue) or "append".
forwarder_validate_rule(rule, cs) ==
    IF ~jsonschema_ok(rule, forwarder_RULE_SCHEMA) THEN forwarder_log("none")
    ELSE IF ~unpack_ok(rule.from.v) THEN "raised"
    ELSE IF ~unpack_ok(rule.send_to.v) THEN "raised"
    ELSE IF truthy(missed_user(rule, cs)) THEN forwarder_log("skip")
    ELSE "append"

RECURSIVE forwarder_validated_rules(_, _)
forwarder_validated_rules(rs, cs) ==
    IF rs = <<>> THEN [result |-> "ok", rules |-> <<>>]
    ELSE LET do == forwarder_validate_rule(Head(rs), cs) IN
         IF do \in {"raised", "none"} THEN [result |-> do, rules |-> <<>>]
         ELSE LET rest == forwarder_validated_rules(Tail(rs), cs) IN
              IF rest.result # "ok" THEN rest
              ELSE IF do = "skip" THEN rest
              ELSE [rest EXCEPT !.rules = <<Head(rs)>> \o @]

\* Forwarder.validate of the single-file forwarder: "none", "raised", or "ok" with
\* the validated rules.
forwarder_validate(cs, rs) ==
    IF \E c \in DOMAIN cs : ~jsonschema_ok(cs[c], forwarder_CLIENT_SCHEMA)
    THEN [result |-> forwarder_log("none"), rules |-> <<>>]
    ELSE forwarder_validated_rules(rs, cs)

\* run(): resp = Forwarder.validate(...); sys.exit(1) if resp is None.
forwarder_Validate ==
    /\ pc = "validate"
    /\ LET resp == forwarder_validate(clients, rules) IN
        /\ pc' = CASE resp.result = "none" -> "exit1"
                    [] resp.result = "raised" -> "raised"
                    [] OTHER -> "construct"
        /\ self_rules' = resp.rules
    /\ UNCHANGED <<published, self_rooms, joined, offset, forwarded, args, printed, updates,
                   clients, self_clients, rules, transports, subscribed, connected,
                   session, loops, tasks, last>>

\* Forwarder.__init__: an IRCClient per client, stored in the client's config dict,
\* then on_message is connected to the irc library's signal "message".
forwarder_Construct ==
    /\ pc = "construct"
    /\ transports' = [c \in DOMAIN clients |-> [client_id |-> c]]
    /\ self_clients' = [c \in DOMAIN clients |->
                            With(self_clients[c], "client", transports'[c])]
    /\ subscribed' = TRUE
    /\ pc' = "start"
    /\ UNCHANGED <<published, self_rooms, joined, offset, forwarded, args, printed, updates,
                   clients, rules, self_rules, connected, session, loops, tasks, last>>

\* Forwarder.start: IRCClient.connect() of the next client (irc.connect, register,
\* join); the log line reads cfg["channels"], which the schema does not require.
forwarder_Connect(c) ==
    /\ pc = "start"
    /\ c \in DOMAIN clients \ connected
    /\ connected' = connected \cup {c}
    /\ IF "channels" \in DOMAIN clients[c]
       THEN /\ session' = [session EXCEPT ![c] = "listening"]
            /\ pc' = pc
       ELSE /\ session' = session
            /\ pc' = "raised"
    /\ UNCHANGED <<published, self_rooms, joined, offset, forwarded, args, printed, updates,
                   clients, self_clients, rules, self_rules, transports, subscribed,
                   loops, tasks, last>>

\* Forwarder.start: asyncio.get_event_loop().run_forever().
forwarder_RunForever ==
    /\ pc = "start"
    /\ connected = DOMAIN clients
    /\ pc' = "running"
    /\ UNCHANGED <<published, self_rooms, joined, offset, forwarded, args, printed, updates,
                   clients, self_clients, rules, self_rules, transports, subscribed,
                   connected, session, loops, tasks, last>>

\* The dict on_message formats the template of the rule with.
forwarder_mapping(client_id, author, msg) ==
    [k \in {"%(client_id)s", "%(author)s", "%(msg)s"} |->
        CASE k = "%(client_id)s" -> client_id
          [] k = "%(author)s" -> <<author>>
          [] OTHER -> msg]

\* The body of the loop of on_message for one rule and a message of the connection to
\* host: "raise", "skip", or "send" with the call of IRCClient.say.
forwarder_rule_step(rule, host, user, target, text) ==
    IF client_id_of(rule.from.v) \notin DOMAIN self_clients
    THEN [do |-> "raise", say |-> <<>>]
    ELSE IF self_clients[client_id_of(rule.from.v)].server.v # host
            \/ channel_of(rule.from.v) # target
    THEN [do |-> "skip", say |-> <<>>]
    ELSE IF "nicknames" \in DOMAIN rule /\ ~InArr(user, rule.nicknames)
    THEN [do |-> "skip", say |-> <<>>]
    ELSE IF "ignore_nicknames" \in DOMAIN rule /\ InArr(user, rule.ignore_nicknames)
    THEN [do |-> "skip", say |-> <<>>]
    ELSE IF regexp_test(rule, text) # "pass"
    THEN [do |-> regexp_test(rule, text), say |-> <<>>]
    ELSE IF client_id_of(rule.send_to.v) \notin DOMAIN transports
    THEN [do |-> "raise", say |-> <<>>]
    ELSE LET tpl == IF "msg_template" \in DOMAIN rule THEN rule.msg_template.v
                    ELSE DEFAULT_MSG_TEMPLATE
             mapping == forwarder_mapping(client_id_of(rule.from.v), user, text)
         IN IF ~format_ok(tpl, mapping) THEN [do |-> "raise", say |-> <<>>]
            ELSE [do |-> "send",
                  say |-> <<[client |-> client_id_of(rule.send_to.v),
                             channel |-> channel_of(rule.send_to.v),
                             text |-> format(tpl, mapping)]>>]

\* "for rule in self._rules": the calls of say, and whether an exception ended it.
RECURSIVE forwarder_rule_loop(_, _, _, _, _, _)
forwarder_rule_loop(rs, host, user, target, text, issued) ==
    IF rs = <<>> THEN [raised |-> FALSE, issued |-> issued]
    ELSE LET step == forwarder_rule_step(Head(rs), host, user, target, text) IN
         IF step.do = "raise" THEN [raised |-> TRUE, issued |-> issued]
         ELSE forwarder_rule_loop(Tail(rs), host, user, target, text, issued \o step.say)

\* Forwarder.on_message(message, user, target, text) for a message of the connection
\* of client y: message.client is that connection, server_info["host"] its server.
forwarder_on_message(y, nick, target, text) ==
    /\ pc = "running"
    /\ subscribed
    /\ y \in DOMAIN clients /\ session[y] = "listening"
    /\ nick # clients[y].nickname.v
    /\ LET r == forwarder_rule_loop(self_rules, clients[y].server.v, nick, target, text, <<>>)
       IN last' = [called |-> TRUE, sender |-> y, user |-> nick, target |-> target,
                   text |-> text, raised |-> r.raised, issued |-> r.issued]
    /\ UNCHANGED <<published, self_rooms, joined, offset, forwarded, args, printed, updates,
                   clients, self_clients, rules, pc, self_rules, transports, subscribed,
                   connected, session, loops, tasks>>

\* Three clients, two of them on the same server.
FileCfg(server, nickname, channel) ==
    [server |-> JStr(server), port |-> JInt(<<"6667">>), nickname |-> JStr(nickname),
     channels |-> JArr(<<channel>>)]

FileClients ==
    [c \in {IRC, Irc2, Gitter} |->
        CASE c = IRC -> FileCfg("chat.freenode.net", BotNick, ChanA)
          [] c = Irc2 -> FileCfg("chat.freenode.net", "bot2", ChanA)
          [] OTHER -> FileCfg("irc.gitter.im", BotNick, ChanB)]

\* Rules of configured clients, one with a template, and one naming an unconfigured
\* client.
FileRulePool ==
    {Rule(Ep(ChanA, IRC), Ep(ChanB, Gitter)),
     With(Rule(Ep(ChanB, Gitter), Ep(ChanA, IRC)), "msg_template", JStr(TplDocumented)),
     Rule(Ep(ChanA, Slack), Ep(ChanB, Gitter))}

InitSingleFile == \E rs \in BoundedSeq(FileRulePool, MaxRules) : InitWith(FileClients, rs)

NextSingleFile ==
    \/ forwarder_Validate
    \/ forwarder_Construct
    \/ \E c \in ClientIds : forwarder_Connect(c)
    \/ forwarder_RunForever
    \/ \E y \in ClientIds, nick \in Authors, target \in Channels, text \in Texts :
          forwarder_on_message(y, nick, target, text)

SpecSingleFile == InitSingleFile /\ [][NextSingleFile]_vars

(***************************************************************************)
(* run(): the command line.                                                *)
(***************************************************************************)
MaxArgs == 2

ArgTokens ==
    {"--help", "-h", "help", "clients", "client", "rules", "rule", ConfigPath, MissingPath}

InArgs(word) == \E i \in 1..Len(args) : args[i] = word

\* for t in _transports: print(json.dumps(t.CLIENT_SCHEMA)).  Iterating the dict
\* yields its keys, the NAME strings; a str has no attribute CLIENT_SCHEMA, so the
\* first iteration raises after its first print.
print_client_schemas ==
    [raised |-> TransportKinds # {},
     out |-> IF TransportKinds # {}
             THEN <<<<"The jsonschema for values of clients section: \n">>>>
             ELSE <<>>]

\* "--help" in args or "-h" in args or "help" in args
HelpRequested == InArgs("--help") \/ InArgs("-h") \/ InArgs("help")

\* The help branch of run(): prints, then sys.exit(0) unless printing raised.
Help ==
    /\ pc = "args"
    /\ HelpRequested
    /\ IF InArgs("clients") \/ InArgs("client")
       THEN /\ printed' = printed \o <<<<"There are several available transports.">>>>
                                   \o print_client_schemas.out
            /\ pc' = IF print_client_schemas.raised THEN "raised" ELSE "exit0"
       ELSE IF InArgs("rules") \/ InArgs("rule")
       THEN /\ printed' = printed \o <<<<"The jsonschema for items of rules section: \n">>,
                                        <<"json.dumps", "RULE_SCHEMA">>>>
            /\ pc' = "exit0"
       ELSE /\ printed' = printed \o <<<<"__doc__">>>>
            /\ pc' = "exit0"
    /\ UNCHANGED <<published, self_rooms, joined, offset, forwarded, args, clients,
                   self_clients, rules, self_rules, transports, subscribed, connected,
                   session, loops, updates, tasks, last>>

\* The error branches of run(): too many arguments, none, or no such file.
Usage ==
    /\ pc = "args"
    /\ ~HelpRequested
    /\ IF Len(args) > 1 \/ args = <<>> THEN TRUE ELSE args[1] # ConfigPath
    /\ printed' = printed \o
          <<IF Len(args) > 1 THEN <<"ERROR: there are too many provided arguments.">>
            ELSE IF args = <<>> THEN <<"ERROR: You should provide a path to config.">>
            ELSE <<"IOError: Failed to open configuration file at", args[1]>>>>
    /\ pc' = "exit1"
    /\ UNCHANGED <<published, self_rooms, joined, offset, forwarded, args, clients,
                   self_clients, rules, self_rules, transports, subscribed, connected,
                   session, loops, updates, tasks, last>>

\* The file is read and parsed; it holds a clients and a rules section.
LoadConfig ==
    /\ pc = "args"
    /\ ~HelpRequested
    /\ args = <<ConfigPath>>
    /\ pc' = "validate"
    /\ UNCHANGED <<published, self_rooms, joined, offset, forwarded, args, printed, clients,
                   self_clients, rules, self_rules, transports, subscribed, connected,
                   session, loops, updates, tasks, last>>

\* The program is started with any short command line; config.yaml holds a valid
\* configuration.
InitCli ==
    /\ args \in BoundedSeq(ArgTokens, MaxArgs)
    /\ printed = <<>>
    /\ clients = Registry(IrcCfg, GitterCfg, TelegramCfg)
    /\ self_clients = clients
    /\ rules = <<RDeny, RFan>>
    /\ pc = "args"
    /\ self_rules = <<>>
    /\ transports = EmptyMap
    /\ subscribed = FALSE
    /\ connected = {}
    /\ session = [c \in DOMAIN clients |-> "none"]
    /\ loops = {}
    /\ updates = [c \in DOMAIN clients |-> <<>>]
    /\ tasks = <<>>
    /\ last = NoCall
    /\ published = NoEvent
    /\ self_rooms = [c \in DOMAIN clients |-> {}]
    /\ joined = {}
    /\ offset = [c \in DOMAIN clients |-> 0]
    /\ forwarded = [c \in DOMAIN clients |-> {}]

NextCli == Help \/ Usage \/ LoadConfig

SpecCli == InitCli /\ [][NextCli]_vars

(***************************************************************************)
(* Properties of rule matching (Forwarder.on_message).                     *)
(***************************************************************************)
\* The endpoint and nickname conditions of a rule hold for the handled message.
Fits(rule, m) ==
    /\ client_id_of(rule.from.v) = m.sender
    /\ channel_of(rule.from.v) = m.target
    /\ "nicknames" \in DOMAIN rule => InArr(m.user, rule.nicknames)
    /\ "ignore_nicknames" \in DOMAIN rule => ~InArr(m.user, rule.ignore_nicknames)

\* The call issued a send to the rule's target transport and channel.
SentTo(rule, m) ==
    \E i \in 1..Len(m.issued) :
        /\ m.issued[i].client = client_id_of(rule.send_to.v)
        /\ m.issued[i].channel = channel_of(rule.send_to.v)

RuleIndexes == 1..Len(self_rules)

\* No other rule of the compiled rule set has the same target endpoint.
OwnTarget(i) ==
    \A j \in RuleIndexes : self_rules[j].send_to.v = self_rules[i].send_to.v => j = i

\* C1: for every compiled rule without a regexp and every handled message (here: one
\* with a text), a send to the rule's target is issued iff the rule's endpoint,
\* allow-list and deny-list conditions all hold for the message.
C1_SendIffRuleFits ==
    last.called /\ last.text # None =>
        \A i \in RuleIndexes :
            "regexp" \notin DOMAIN self_rules[i] /\ OwnTarget(i) =>
                (SentTo(self_rules[i], last) <=> Fits(self_rules[i], last))

\* C2: a rule with a regexp forwards an otherwise matching message iff the rule's
\* regexp, as the pattern, matches the message text, as the subject (here: in the
\* calls that returned normally).
C2_RegexpIsThePattern ==
    last.called /\ ~last.raised =>
        \A i \in RuleIndexes :
            "regexp" \in DOMAIN self_rules[i] /\ OwnTarget(i) /\ Fits(self_rules[i], last) =>
                (SentTo(self_rules[i], last)
                    <=> re_match(self_rules[i].regexp.v, last.text))

\* C3: a message that matches k rules of the compiled rule set causes exactly k
\* sends, one to the target of each matching rule (here: a message with a text and a
\* rule set without regexp).
C3_OneSendPerMatchingRule ==
    /\ last.called
    /\ last.text # None
    /\ \A i \in RuleIndexes : "regexp" \notin DOMAIN self_rules[i]
    => /\ Len(last.issued) = Cardinality({i \in RuleIndexes : Fits(self_rules[i], last)})
       /\ \A i \in RuleIndexes : Fits(self_rules[i], last) => SentTo(self_rules[i], last)

\* C4: no transport publishes a message whose author is the identity the transport
\* itself is connected as.
C4_NoSelfMessagePublished ==
    last.called => last.user # identity(last.sender)

\* C5: on_message never raises, whatever the message, the rules and the templates.
C5_RouterNeverRaises ==
    last.called => ~last.raised

(***************************************************************************)
(* Properties of startup (run, Forwarder.validate).                        *)
(***************************************************************************)
ReferencesRegistered(rule) ==
    /\ client_id_of(rule.from.v) \in DOMAIN clients
    /\ client_id_of(rule.send_to.v) \in DOMAIN clients

Validated == pc \in {"construct", "start", "running"}

\* C6: validate keeps exactly the rules whose two client ids are configured, in
\* their original order, so the compiled rule set references registered clients only.
C6_CompiledRulesAreTheRegisteredOnes ==
    Validated => self_rules = SelectSeq(rules, ReferencesRegistered)

UnknownKind(cfg) == "transport" \notin DOMAIN cfg \/ cfg.transport.v \notin TransportKinds

Aborted == pc \in {"validate", "exit1"} /\ transports = EmptyMap /\ connected = {}

ViolatesClientSchema(cfg) ==
    ~UnknownKind(cfg) /\ ~jsonschema_ok(cfg, CLIENT_SCHEMA(cfg.transport.v))

\* C8: when a client's config violates the schema of its transport kind, validate
\* fails and startup aborts before connect() is invoked on any client.
C8_SchemaViolationAborts ==
    (\E c \in DOMAIN clients : ViolatesClientSchema(clients[c])) => Aborted

(***************************************************************************)
(* Properties of sending (BaseTransport.say).                              *)
(***************************************************************************)
\* C9: on_message only schedules its sends: when it returns, the coroutines it
\* created are on the event loop behind the ones still pending, none awaited.
C9_SendsAreOnlyScheduled ==
    [][last' # last => tasks' = tasks \o last'.issued]_vars

\* A call issued a send to a transport that still has an unfinished earlier send.
C9_Witness ==
    /\ last.called
    /\ Len(last.issued) = 1
    /\ Len(tasks) = 2
    /\ tasks[2] = last.issued[1]
    /\ tasks[1].client = tasks[2].client

\* The template the destination client is configured with, else its kind's default.
DestinationTemplate(c) ==
    IF "msg_template" \in DOMAIN clients[c]
    THEN clients[c].msg_template.v
    ELSE MSG_TEMPLATE(KindOf(c))

RenderedWith(template, send, m) ==
    LET mapping == say_mapping(m.user, m.sender, m.target, send.channel, m.text) IN
    format_ok(template, mapping) /\ send.text = format(template, mapping)

\* C10: the text of every send is rendered with the destination's template: its
\* configured msg_template if it has one, else the default of its transport kind.
C10_DestinationTemplate ==
    last.called =>
        \A i \in 1..Len(last.issued) :
            RenderedWith(DestinationTemplate(last.issued[i].client), last.issued[i], last)

\* Sends were rendered with an override and with a default that is not the origin's.
C10_Witness ==
    /\ last.called
    /\ \E i \in 1..Len(last.issued) :
          \/ "msg_template" \in DOMAIN clients[last.issued[i].client]
          \/ /\ "msg_template" \in DOMAIN clients[last.sender]
             /\ KindOf(last.sender) # KindOf(last.issued[i].client)

(***************************************************************************)
(* Properties of template rendering (BaseTransport.say).                   *)
(***************************************************************************)
UsesClientId(template) == \E k \in 1..Len(template) : template[k] = "%(client_id)s"

\* What the documented placeholders stand for: client_id is the origin client id.
DocumentedMapping(send, m) ==
    With(say_mapping(m.user, m.sender, m.target, send.channel, m.text),
         "%(client_id)s", m.sender)

\* C11: when a rule fits a message and the destination's template is written with
\* %(client_id)s, the send is issued and its text is the template with the origin
\* client id, the author and the message text substituted.
C11_ClientIdPlaceholderRenders ==
    last.called /\ last.text # None =>
        \A i \in RuleIndexes :
            LET rule == self_rules[i]
                tpl == DestinationTemplate(client_id_of(rule.send_to.v))
            IN "regexp" \notin DOMAIN rule /\ Fits(rule, last) /\ UsesClientId(tpl) =>
                   \E k \in 1..Len(last.issued) :
                       /\ last.issued[k].client = client_id_of(rule.send_to.v)
                       /\ last.issued[k].channel = channel_of(rule.send_to.v)
                       /\ last.issued[k].text =
                              format(tpl, DocumentedMapping(last.issued[k], last))

(***************************************************************************)
(* Properties of the order and the number of sends.                        *)
(***************************************************************************)
\* The sends of a call follow the order of the rules that caused them: send k is
\* the send of rule f[k], a rule that fits the message, and f is increasing.
InRuleOrder(m, rs) ==
    \E f \in [1..Len(m.issued) -> 1..Len(rs)] :
        /\ \A k \in 1..Len(m.issued) :
              /\ Fits(rs[f[k]], m)
              /\ m.issued[k].client = client_id_of(rs[f[k]].send_to.v)
              /\ m.issued[k].channel = channel_of(rs[f[k]].send_to.v)
        /\ \A j, k \in 1..Len(m.issued) : j < k => f[j] < f[k]

\* C13: the sends of one call are scheduled in the order of the matching rules of the
\* compiled rule set, and behind every send of the calls handled before it.
C13_SendsIssuedInRuleOrder ==
    [][last' # last =>
          /\ InRuleOrder(last', self_rules')
          /\ SubSeq(tasks', 1, Len(tasks)) = tasks
          /\ SubSeq(tasks', Len(tasks) + 1, Len(tasks')) = last'.issued]_vars

\* One message caused two sends to the same transport, scheduled in rule order.
C13_Witness ==
    /\ last.called
    /\ Len(last.issued) = 2
    /\ last.issued[1].client = last.issued[2].client
    /\ last.issued[1].channel = channel_of(self_rules[1].send_to.v)
    /\ last.issued[2].channel = channel_of(self_rules[2].send_to.v)
    /\ last.issued[1].channel # last.issued[2].channel
    /\ tasks = last.issued

\* The number of sends a call issued to the target of a rule.
SendsTo(rule, m) ==
    Cardinality({k \in 1..Len(m.issued) :
                    /\ m.issued[k].client = client_id_of(rule.send_to.v)
                    /\ m.issued[k].channel = channel_of(rule.send_to.v)})

\* C14: for each handled message (here: one with a text) and each matching rule, say()
\* is invoked exactly once, and no step other than the handling of a message (such as
\* the end of a _say coroutine, whatever its outcome) issues a send.
C14_ExactlyOneSayPerMatchingRule ==
    [][/\ last' # last /\ last'.text # None =>
              \A i \in 1..Len(self_rules') :
                  LET rule == self_rules'[i] IN
                  /\ "regexp" \notin DOMAIN rule
                  /\ \A j \in 1..Len(self_rules') :
                        self_rules'[j].send_to.v = rule.send_to.v => j = i
                  /\ Fits(rule, last')
                  => SendsTo(rule, last') = 1
       /\ last' = last => Len(tasks') <= Len(tasks)]_vars

(***************************************************************************)
(* Properties of connecting and of the receive loops.                      *)
(***************************************************************************)
\* C15: once the Forwarder is constructed (here: with irc clients whose configs satisfy
\* the irc schema), start() is never ended by a failing connect(): it goes on to the
\* other clients and to the event loop; and a transport whose connection failed
\* publishes nothing.
C15_ConnectFailureDoesNotCrashStartup ==
    /\ subscribed
    /\ \A c \in DOMAIN clients : KindOf(c) = "irc" => ~ViolatesClientSchema(clients[c])
    => /\ pc \in {"start", "running"}
       /\ last.called => session[last.sender] # "failed"

\* C16: a network error in a receive loop is handled inside the transport: a step
\* that handles no message ends no receive loop, so the loop goes on publishing.
C16_ReceiveLoopSurvivesNetworkError ==
    [][last' = last => loops \subseteq loops']_vars

(***************************************************************************)
(* Properties of endpoint parsing (str.split in validate and on_message).  *)
(***************************************************************************)
LastAt(s) == CHOOSE i \in 1..Len(s) : s[i] = "@" /\ \A j \in (i+1)..Len(s) : s[j] # "@"

\* The endpoint read by splitting on the last "@".
ChannelByLastAt(s) == SubSeq(s, 1, LastAt(s) - 1)
ClientIdByLastAt(s) == SubSeq(s, LastAt(s) + 1, Len(s))

\* C18: a configured rule whose endpoints, split on the last "@", name configured
\* clients is compiled, and its compiled endpoints are read as (everything before the
\* last "@", the part after it).
C18_SplitOnLastAt ==
    Validated =>
        \A i \in 1..Len(rules) :
            /\ ClientIdByLastAt(rules[i].from.v) \in DOMAIN clients
            /\ ClientIdByLastAt(rules[i].send_to.v) \in DOMAIN clients
            => /\ \E j \in RuleIndexes : self_rules[j] = rules[i]
               /\ client_id_of(rules[i].from.v) = ClientIdByLastAt(rules[i].from.v)
               /\ channel_of(rules[i].from.v) = ChannelByLastAt(rules[i].from.v)

(***************************************************************************)
(* Properties of the client configuration and of publishing.               *)
(***************************************************************************)
\* C17: after validation the client configs are never changed: the dicts the program
\* holds keep the keys and values they were validated with.
C17_ClientConfigImmutable ==
    Validated => self_clients = clients

\* The step published the update u of client c and issued all the sends it causes.
Handled(c, u, m, before, after) ==
    /\ m.called
    /\ m.sender = c /\ m.user = u.author /\ m.target = u.chat /\ m.text = u.text
    /\ after = before \o m.issued

\* C12: a receive loop publishes its events in the order it received them, each one
\* handled to completion (all its sends issued) before the loop goes on: an iteration
\* over a getUpdates result handles the oldest update not yet handled, in one step.
C12_PublishInReceivedOrder ==
    [][\A c \in DOMAIN updates :
          updates[c] # <<>> /\ updates'[c] # updates[c] /\ <<c, <<>>>> \in loops' =>
              /\ updates'[c] = Tail(updates[c])
              /\ Head(updates[c]).text # None =>
                    Handled(c, Head(updates[c]), last', tasks, tasks')]_vars

\* The first update of a result of two was published, with a send; the second is next.
C12_Witness ==
    /\ last.called
    /\ last.sender = Telegram
    /\ last.user = BotNick
    /\ Len(last.issued) = 1
    /\ updates[Telegram] = Tail(Numbered(<<TgUpdate(BotNick), TgUpdate("alice")>>, 1))

(***************************************************************************)
(* Properties of the startup order.                                        *)
(***************************************************************************)
\* C19 as stated: the registry is built after validation, connect() is invoked on
\* every transport before the Router is subscribed, and the Router is subscribed
\* before the event loop runs.
C19_ConnectBeforeSubscribe ==
    /\ transports # EmptyMap => pc # "validate"
    /\ subscribed => connected = DOMAIN clients
    /\ pc = "running" => subscribed

\* C19 amended: validation, which also compiles the rule set, comes first; then the
\* transports are constructed; then the Router is subscribed; then connect() is
\* invoked on each transport; then the event loop runs.
C19_StartupOrder ==
    /\ transports # EmptyMap =>
          /\ pc \in {"start", "running", "raised"}
          /\ Forwarder_validate(clients, rules).result = "ok"
          /\ self_rules = Forwarder_validate(clients, rules).rules
    /\ subscribed => DOMAIN transports = DOMAIN clients
    /\ connected # {} => subscribed
    /\ pc = "running" => subscribed /\ connected = DOMAIN clients

\* The event loop runs, with a rule set and with every client connected after the
\* Router was subscribed.
C19_Witness ==
    /\ pc = "running"
    /\ subscribed
    /\ self_rules # <<>>
    /\ Cardinality(connected) > 1

(***************************************************************************)
(* Properties of the command line (run).                                   *)
(***************************************************************************)
WasPrinted(line) == \E i \in 1..Len(printed) : printed[i] = line

\* The description a help request asks for was printed.
DescriptionPrinted ==
    IF InArgs("clients") \/ InArgs("client")
    THEN \A kind \in TransportKinds : WasPrinted(<<"json.dumps", "CLIENT_SCHEMA", kind>>)
    ELSE IF InArgs("rules") \/ InArgs("rule")
    THEN WasPrinted(<<"json.dumps", "RULE_SCHEMA">>)
    ELSE WasPrinted(<<"__doc__">>)

\* C20: a run with --help, alone or with "clients" or "rules", prints the description
\* asked for and ends with exit status 0.
C20_HelpExitsZero ==
    HelpRequested /\ pc # "args" => pc = "exit0" /\ DescriptionPrinted

(***************************************************************************)
(* The documented example configuration.                                   *)
(***************************************************************************)
\* C21: the example configuration of the module documentation is accepted by
\* validate, which returns the clients together with all three rules.
C21_DocumentedExampleAccepted ==
    (clients = DocClients /\ rules = DocRules /\ pc # "validate") =>
        (Validated /\ self_rules = DocRules)

(***************************************************************************)
(* Properties of publishing (the receive paths, _forward_message).         *)
(***************************************************************************)
\* C22: every published message carries the id of the transport whose own session
\* received it: a message received on the connection of irc client A is never
\* published with the id of another irc client B.
C22_PublishedByReceivingTransport ==
    published # NoEvent => published.by = published.on

(***************************************************************************)
(* Properties of the Gitter session (GitterClient._connect).               *)
(***************************************************************************)
\* C23: when the connect of a Gitter transport completes, every configured channel
\* is in the transport's room map and has a running listen loop, and connect has
\* joined no room that is not configured.
C23_ConfiguredRoomsJoinedAndListened ==
    [][\A c \in DOMAIN session :
          session[c] = "connecting" /\ session'[c] = "listening" /\ KindOf(c) = "Gitter" =>
              /\ \A r \in requested_rooms(c) : r \in self_rooms'[c] /\ <<c, r>> \in loops'
              /\ \A j \in joined' : j[1] = c => j[2] \in requested_rooms(c)]_vars

\* C24: with a rule in each direction between two endpoints, a user's message on the
\* one causes exactly one send to the other, and a message authored by the receiving
\* transport's own connected identity (the echo of a send) causes no send.
C24_NoRelayLoop ==
    last.called =>
        /\ last.user = identity(last.sender) => last.issued = <<>>
        /\ last.sender = IRC /\ last.target = ChanA /\ last.user # identity(IRC) =>
               /\ Len(last.issued) = 1
               /\ last.issued[1].client = Telegram /\ last.issued[1].channel = ChanA

(***************************************************************************)
(* Properties of the telegram poll loop (_listen_for_update).              *)
(***************************************************************************)
\* The step is an iteration of client c that publishes the update it handles.
PublishesUpdate(c) ==
    /\ updates[c] # <<>>
    /\ updates'[c] = Tail(updates[c])
    /\ Head(updates[c]).text # None

\* C26: the telegram loop publishes each update at most once: the offset never
\* decreases, it lies behind every update that was published, and no iteration
\* publishes an update that was published before.
C26_EachUpdatePublishedAtMostOnce ==
    /\ [](\A c \in DOMAIN offset : \A id \in forwarded[c] : offset[c] > id)
    /\ [][\A c \in DOMAIN offset :
             /\ offset'[c] >= offset[c]
             /\ PublishesUpdate(c) => Head(updates[c]).update_id \notin forwarded[c]]_vars

\* Two updates were published, the offset lies behind both, and a later poll has
\* returned the updates from the offset on.
C26_Witness ==
    /\ forwarded[Telegram] = {2, 3}
    /\ offset[Telegram] = 4
    /\ updates[Telegram] = SubSeq(TelegramFeed, 4, 5)

(***************************************************************************)
(* Properties of startup with malformed rules.                             *)
(***************************************************************************)
RuleKeys == {"from", "send_to", "nicknames", "ignore_nicknames", "regexp"}

\* A rule is structurally malformed: "from" or "send_to" is missing, a key is
\* unknown, or "from" / "send_to" is no string with an "@".
Malformed(rule) ==
    \/ ~({"from", "send_to"} \subseteq DOMAIN rule)
    \/ ~(DOMAIN rule \subseteq RuleKeys)
    \/ \E k \in {"from", "send_to"} \cap DOMAIN rule :
          \/ rule[k].type # "string"
          \/ \A i \in 1..Len(rule[k].v) : rule[k].v[i] # "@"

C27_PublishedOnlyWhileSubscribed ==
    /\ (\E c \in DOMAIN session : session[c] # "none") => subscribed
    /\ published # NoEvent =>
           /\ subscribed
           /\ last.called
           /\ last.sender = published.by /\ last.user = published.user
           /\ last.target = published.target /\ last.text = published.text

\* A telegram update was published and on_message has issued a send for it.
C27_Witness ==
    /\ published.on = Telegram
    /\ last.called /\ last.sender = Telegram /\ Len(last.issued) = 1
    /\ subscribed

(***************************************************************************)
(* Properties of the single-file forwarder (src/forwarder.py).             *)
(***************************************************************************)
\* C28: the single-file forwarder applies a rule only to a message received by the
\* client its "from" names, on that channel: every send is that of a rule whose
\* "from" is the channel and the client the message was received on.
C28_RuleAppliedOnlyToItsClient ==
    last.called =>
        \A k \in 1..Len(last.issued) :
            \E i \in 1..Len(self_rules) :
                /\ self_rules[i].from.v = Ep(last.target, last.sender)
                /\ self_rules[i].send_to.v = Ep(last.issued[k].channel, last.issued[k].client)

\* C29: the single-file forwarder drops a rule that names an unconfigured client and
\* goes on: startup does not abort, and the rules that name configured clients are
\* the validated ones.
C29_UnconfiguredClientRuleDropped ==
    (\E i \in 1..Len(rules) : ~ReferencesRegistered(rules[i])) =>
        /\ pc \notin {"raised", "exit1"}
        /\ pc # "validate" => self_rules = SelectSeq(rules, ReferencesRegistered)

====
